---- MODULE Spec2Model ----
(***************************************************************************)
(* Model of the volume-ensemble PCA pipeline of scipion-em-cryomethods:    *)
(* ProtLandscapePCA.analyzePCAStep (protocols/protocol_control_pca.py)     *)
(* with its helpers _getAverageVol, _getvhDel and _geteigen, and of        *)
(* ProtClass3DRansac.pcaStep (protocols/protocol_directional_ransac.py).    *)
(*                                                                         *)
(* Arithmetic is exact.  A volume is its flattened vector of `lenght`      *)
(* voxels (the code reshapes every volume to that vector).  Input voxels   *)
(* are multiples of Unit, a common multiple of every admissible list       *)
(* length, so that np.divide(sum, len(listVol)) is an exact integer        *)
(* division.  Floating-point rounding and the astype(dType) cast are not   *)
(* modelled.                                                               *)
(***************************************************************************)
EXTENDS Integers, Sequences, FiniteSets, TLC

\* ------------------------------------------------------------------ bounds
\* largest number of input volumes in listVol
MaxN == 3
\* number of voxels of a flattened volume (lenght = dim ** 3 in the code)
lenght == 2
\* largest singular value the decomposition returns (in arbitrary units)
MaxSing == 1
\* longest singular-value sequence given to the rank loop on its own
MaxRankLen == 4
\* largest singular value given to the rank loop on its own
MaxRankSing == 5

\* ------------------------------------------------------- program constants
PCA_THRESHOLD == 0
PCA_COUNT == 1

\* ------------------------------------------------------------ arithmetic
RECURSIVE Gcd(_, _)
Gcd(a, b) == IF b = 0 THEN a ELSE Gcd(b, a % b)

Lcm(a, b) == (a * b) \div Gcd(a, b)

RECURSIVE LcmUpTo(_)
LcmUpTo(n) == IF n <= 1 THEN 1 ELSE Lcm(n, LcmUpTo(n - 1))

\* voxel unit: every list length 1..MaxN divides it
Unit == LcmUpTo(MaxN)

RECURSIVE SumSeq(_)
SumSeq(q) == IF q = <<>> THEN 0 ELSE Head(q) + SumSeq(Tail(q))

Zeros(n) == [t \in 1..n |-> 0]
VAdd(x, y) == [t \in 1..Len(x) |-> x[t] + y[t]]
VSub(x, y) == [t \in 1..Len(x) |-> x[t] - y[t]]
VScale(x, b) == [t \in 1..Len(x) |-> x[t] * b]
Dot(x, y) == SumSeq([t \in 1..Len(x) |-> x[t] * y[t]])

\* all orders in which the members of a finite set can be listed
Perms(S) ==
  {f \in [1..Cardinality(S) -> S] : \A a, b \in 1..Cardinality(S) : f[a] = f[b] => a = b}

\* ----------------------------------------------------------------- files
\* input volume files (getImageLocation of the items of inputVolumes)
Paths == {<<"in", 1>>, <<"in", 2>>}
\* the average saved onto the first input volume
AvgMapOnInput == <<"in", 1>>

\* the file _getFileName('avgMap') names
AvgMap == <<"avgMap", 0>>
\* a volume file that is in the extra directory before the step starts
Stray == <<"other", 0>>
BaseFile(c) == <<"volume_base", c>>
ReconFile(i) == <<"volume_reconstructed", i>>
DiffFile(i) == <<"volDiff", i>>

Files ==
  Paths \cup {AvgMap, Stray}
    \cup {BaseFile(c) : c \in 0..(MaxN - 1)}
    \cup {ReconFile(i) : i \in 0..(MaxN - 1)}
    \cup {DiffFile(i) : i \in 0..(MaxN - 1)}

NoFile == <<>>
None == <<>>

\* the volumes an input file can hold
Volumes == [1..lenght -> {0, Unit}]

\* a volume of another dimension: it has one voxel more
OddVolume == [t \in 1..(lenght + 1) |-> 0]

\* what loadMrc can return for an input file
InputVolumes == Volumes \cup {OddVolume}

\* the files of the extra directory that match extra/*.mrc
InExtra(f) == f = Stray \/ f[1] = "volume_base"

\* the runs of ProtClass3DRansac that can execute side by side
Runs == {1, 2}

\* a run that does not take place; the fields are the locals of pcaStep
NoRun ==
  [pc |-> "absent", vols |-> <<>>, method |-> -1, wanted |-> 0, raised |-> FALSE,
   avgVol |-> "", avgFile |-> <<>>, npAvgVol |-> <<>>, cov_matrix |-> <<>>,
   s |-> <<>>, vh |-> <<>>, sCut |-> -1, vhDel |-> <<>>, matProj |-> <<>>,
   nClusters |-> -1, converged |-> TRUE, op |-> <<>>]

\* the working directory before any run has written to it
NoCwd == [f \in {"eigenvalues.txt", "eigenvectors.txt", "matrix_vhDel.txt",
                  "matProj_splic.txt", "x_proj_splic.txt", "y_proj_splic.txt"} |-> NoFile]

VARIABLES
  pc,            \* position of analyzePCAStep
  listVol,       \* fnIn / listVol: the ordered list of input paths
  fs,            \* the content of every volume file
  dirs,          \* the directories created with os.makedirs
  extraListing,  \* the order in which the extra directory lists its *.mrc files
  thresholdMode, \* form parameter thresholdMode
  thr,           \* form parameter thr, as <<numerator, denominator>>
  pcaCount,      \* form parameter pcaCount, in halves (2 * value)
  npAvgVol,      \* the average volume loaded from avgMap
  cov_matrix,    \* the correlation matrix
  s,             \* singular values returned by np.linalg.svd
  vh,            \* right-singular vectors (rows) returned by np.linalg.svd
  sCut,          \* the count computed by _getvhDel (-1 while not computed)
  eigenFile,     \* content of EigenFile/*.npy
  vhDel,         \* the N x k matrix returned by _getvhDel
  baseMrcFile,   \* the glob of extra/*.mrc used by the projection stage
  matProj,       \* projection coordinates, one row per input volume
  coordFile,     \* content of Coordinates/matProj_splic.npy
  refStar,       \* content of extra/input_references.star
  ransac,        \* the state of each run of ProtClass3DRansac.pcaStep
  cwd,           \* the files of the process working directory
  _dict,         \* OpticsGroups._dict: optics group number -> record
  _dictName,     \* OpticsGroups._dictName: optics group name -> record
  Class2D,       \* the 2D classification program of the ransac protocol
  noOfParticles, \* the form parameter noOfParticles
  randomIteration, \* the form parameter randomIteration
  directional,   \* classify2DStep and randomSelectionStep: position and files
  classify,      \* ProtocolBase.runClassifyStep: position, runs, model files
  writer,        \* one call of Writer._micToRow or Writer._partToRow
  reader         \* a Reader instance and the calls made on it

\* the variables of the two PCA protocols
coreVars ==
  <<pc, listVol, fs, dirs, extraListing, thresholdMode, thr, pcaCount, npAvgVol,
    cov_matrix, s, vh, sCut, eigenFile, vhDel, baseMrcFile, matProj, coordFile,
    refStar, ransac, cwd>>

\* the variables of an OpticsGroups object
opticsVars == <<_dict, _dictName>>

\* the variables of classify2DStep and randomSelectionStep
directionalVars == <<Class2D, noOfParticles, randomIteration, directional>>

\* the variables outside the two PCA protocols
extVars == <<opticsVars, directionalVars, classify, writer, reader>>

vars == <<coreVars, extVars>>

\* no OpticsGroups object has been built
NoOptics ==
  /\ _dict = <<>>
  /\ _dictName = <<>>

\* the 2D classification steps are not run; the parameters have their defaults
NoDirectional ==
  /\ Class2D = 2
  /\ noOfParticles = 25
  /\ randomIteration = 5
  /\ directional = [pc |-> "absent"]

\* runClassifyStep is not run
NoClassify == classify = [pc |-> "absent"]

\* no Writer is in use
NoWriter == writer = [pc |-> "absent"]

\* no Reader is in use
NoReader == reader = [pc |-> "absent"]

\* nothing but the PCA protocols is in use
NoExtensions ==
  /\ NoOptics
  /\ NoDirectional
  /\ NoClassify
  /\ NoWriter
  /\ NoReader

N == Len(listVol)

loadMrc(f) == fs[f]

\* ------------------------------------------------------------- _getAverageVol
\* the accumulator after the first i entries of the list: it is created
\* (reset to zeros) whenever the entry equals the first entry of the list
RECURSIVE AvgAcc(_, _, _)
AvgAcc(lst, files, i) ==
  IF i = 0 THEN None
  ELSE IF lst[i] = lst[1] THEN VAdd(Zeros(Len(files[lst[i]])), files[lst[i]])
  ELSE VAdd(AvgAcc(lst, files, i - 1), files[lst[i]])

Divide(x, n) == [t \in 1..Len(x) |-> x[t] \div n]

getAverageVol(lst, files) == Divide(AvgAcc(lst, files, Len(lst)), Len(lst))

Init ==
  /\ pc = "start"
  /\ listVol \in UNION {[1..n -> Paths] : n \in 1..MaxN}
  /\ \E vols \in [Paths -> InputVolumes], stray \in BOOLEAN :
       /\ vols[<<"in", 1>>] \in Volumes
       /\ fs = [f \in Files |->
                  IF f \in Paths THEN vols[f]
                  ELSE IF f = Stray /\ stray THEN [t \in 1..lenght |-> Unit]
                  ELSE NoFile]
       /\ extraListing = IF stray THEN <<Stray>> ELSE <<>>
  /\ dirs = {}
  /\ \/ /\ thresholdMode = PCA_THRESHOLD
        /\ thr \in {<<1, 2>>, <<19, 20>>, <<1, 1>>}
        /\ pcaCount = 4
     \/ /\ thresholdMode = PCA_COUNT
        /\ thr = <<19, 20>>
        /\ pcaCount \in {-2, 0, 2, 3} \cup {2 * c : c \in 2..MaxN}
  /\ npAvgVol = None
  /\ cov_matrix = None
  /\ s = None
  /\ vh = None
  /\ sCut = -1
  /\ eigenFile = None
  /\ vhDel = None
  /\ baseMrcFile = None
  /\ matProj = None
  /\ coordFile = None
  /\ refStar = None
  /\ ransac = [r \in Runs |-> NoRun]
  /\ cwd = NoCwd
  /\ NoExtensions

\* some entry of the list has not the shape of the first entry
ShapeMismatch(lst, files) ==
  \E i \in 1..Len(lst) : Len(files[lst[i]]) # Len(files[lst[1]])

\* analyzePCAStep, lines 173-194: the list is written to the references
\* file, then the average is computed, saved and reloaded.  Nothing looks at
\* the number of volumes; volumes of different shapes make npAvgVol += npVol
\* raise ValueError before the average is saved.
AverageStage ==
  /\ pc = "start"
  /\ refStar' = listVol
  /\ IF ShapeMismatch(listVol, fs)
     THEN /\ pc' = "ValueError"
          /\ UNCHANGED <<fs, npAvgVol>>
     ELSE /\ fs' = [fs EXCEPT ![AvgMap] = getAverageVol(listVol, fs)]
          /\ npAvgVol' = getAverageVol(listVol, fs)
          /\ pc' = "average"
  /\ UNCHANGED <<listVol, dirs, extraListing, thresholdMode, thr, pcaCount,
                 cov_matrix, s, vh, sCut, eigenFile, vhDel, baseMrcFile, matProj, coordFile>>
  /\ UNCHANGED <<ransac, cwd>>
  /\ UNCHANGED extVars

\* ------------------------------------------------------------- np.corrcoef
\* A correlation coefficient r is kept exactly as the reduced fraction
\* sign(cov) * cov^2 / (var_x * var_y), i.e. r * |r|; NaN is the value numpy
\* returns (0/0) when one of the two vectors has zero variance.
NaN == [num |-> 0, den |-> 0]

\* n * (x - mean(x)), the centring np.corrcoef applies to each variable
Centred(x) == [t \in 1..Len(x) |-> Len(x) * x[t] - SumSeq(x)]

\* a coefficient normalised by the variance of the first variable alone
CorrcoefSkewed(x, y) ==
  LET cx == Centred(x)
      cy == Centred(y)
      cov == Dot(cx, cy)
      vx == Dot(cx, cx)
      vy == Dot(cy, cy)
      g == Gcd(cov * cov, vx * vx)
  IN IF vx = 0 \/ vy = 0 THEN NaN
     ELSE [num |-> (IF cov < 0 THEN -1 ELSE 1) * ((cov * cov) \div g),
           den |-> (vx * vx) \div g]

Corrcoef(x, y) ==
  LET cx == Centred(x)
      cy == Centred(y)
      cov == Dot(cx, cy)
      vx == Dot(cx, cx)
      vy == Dot(cy, cy)
      g == Gcd(cov * cov, vx * vy)
  IN IF vx = 0 \/ vy = 0 THEN NaN
     ELSE [num |-> (IF cov < 0 THEN -1 ELSE 1) * ((cov * cov) \div g),
           den |-> (vx * vy) \div g]

\* analyzePCAStep, lines 197-213: row i, column j is
\* corrcoef(vol_j - avg, vol_i - avg).item(1)
covMatrix(lst, files, avg) ==
  [i \in 1..Len(lst) |->
     [j \in 1..Len(lst) |->
        Corrcoef(VSub(files[lst[j]], avg), VSub(files[lst[i]], avg))]]

HasNaN(m) == \E i \in 1..Len(m) : \E j \in 1..Len(m[i]) : m[i][j] = NaN

CovStage ==
  /\ pc = "average"
  /\ cov_matrix' = covMatrix(listVol, fs, npAvgVol)
  /\ pc' = "cov"
  /\ UNCHANGED <<listVol, fs, dirs, extraListing, thresholdMode, thr, pcaCount,
                 npAvgVol, s, vh, sCut, eigenFile, vhDel, baseMrcFile, matProj, coordFile>>
  /\ UNCHANGED <<refStar, ransac, cwd>>
  /\ UNCHANGED extVars

\* ------------------------------------------------------------ np.linalg.svd
\* The decomposition is a library call: it returns some non-increasing
\* sequence of n non-negative singular values and some n x n matrix vh whose
\* rows are the right-singular vectors.  The correlation matrix of n vectors
\* that are centred on their average, or of a list holding one volume twice,
\* is rank deficient, so the last singular value is 0 and the first is not.
NonIncreasing(q) == \A a \in 1..(Len(q) - 1) : q[a] >= q[a + 1]

SingularValues(n) ==
  {q \in [1..n -> 0..MaxSing] : NonIncreasing(q) /\ q[1] > 0 /\ q[n] = 0}

\* two families of integer stand-ins for the matrix of singular vectors
VhA(n) == [r \in 1..n |-> [i \in 1..n |-> IF i = r THEN 2 ELSE IF i < r THEN 1 ELSE 0]]
VhB(n) == [r \in 1..n |-> [i \in 1..n |-> IF i = r THEN 1 ELSE IF i = 1 THEN -1 ELSE 0]]

SingularVectors(n) == {VhA(n), VhB(n)}

\* analyzePCAStep, line 216.  A matrix with NaN entries is handed to the
\* routine as it is; the routine then either raises LinAlgError or returns
\* NaN factors, and the model follows the run no further in either case.
SvdStage ==
  /\ pc = "cov"
  /\ IF HasNaN(cov_matrix)
     THEN /\ pc' \in {"LinAlgError", "svdNaN"}
          /\ UNCHANGED <<s, vh>>
     ELSE /\ s' \in SingularValues(N)
          /\ vh' \in SingularVectors(N)
          /\ pc' = "svd"
  /\ UNCHANGED <<listVol, fs, dirs, extraListing, thresholdMode, thr, pcaCount,
                 npAvgVol, cov_matrix, sCut, eigenFile, vhDel, baseMrcFile, matProj, coordFile>>
  /\ UNCHANGED <<refStar, ransac, cwd>>
  /\ UNCHANGED extVars

\* ---------------------------------------------------------------- _getvhDel
\* the loop of _getvhDel / _getPcaCount: cut is cuttOffMatrix times the
\* denominator of the threshold, so the comparison with 0 is exact
\* the loop with the comparison cuttOffMatrix >= 0 instead of > 0
RECURSIVE rankLoopGe(_, _, _, _, _)
rankLoopGe(sv, idx, cut, nCut, den) ==
  IF idx > Len(sv) THEN nCut
  ELSE IF cut >= 0 THEN rankLoopGe(sv, idx + 1, cut - sv[idx] * den, nCut + 1, den)
  ELSE nCut

RECURSIVE rankLoop(_, _, _, _, _)
rankLoop(sv, idx, cut, nCut, den) ==
  IF idx > Len(sv) THEN nCut
  ELSE IF cut > 0 THEN rankLoop(sv, idx + 1, cut - sv[idx] * den, nCut + 1, den)
  ELSE nCut

\* sCut for the singular values sv and the threshold t = <<num, den>>
getPcaCount(sv, t) == rankLoop(sv, 1, SumSeq(sv) * t[1], 0, t[2])

\* int(x) of a float given in halves: truncation toward zero
IntOfHalves(h) == IF h >= 0 THEN h \div 2 ELSE -((-h) \div 2)

\* first index of the Python slice sCut:n on an axis of length n
SliceStart(nCut, n) ==
  IF nCut < 0 THEN (IF n + nCut < 0 THEN 0 ELSE n + nCut)
  ELSE IF nCut > n THEN n ELSE nCut

\* np.transpose(np.delete(m, np.s_[sCut:m.shape[1]], axis=0)): the rows before
\* the slice are kept and become the columns of the result
deleteAndTranspose(m, nCut) ==
  [i \in 1..Len(m) |-> [c \in 1..SliceStart(nCut, Len(m)) |-> m[c][i]]]

Transpose(m) == [i \in 1..Len(m) |-> [c \in 1..Len(m) |-> m[c][i]]]

\* the matrix _getvhDel returns for the given parameters
getvhDel(m, sv, mode, t, count) ==
  IF mode = PCA_THRESHOLD
  THEN IF t[1] < t[2] THEN deleteAndTranspose(m, getPcaCount(sv, t))
       ELSE Transpose(m)
  ELSE deleteAndTranspose(m, IntOfHalves(count))

\* the local sCut of _getvhDel; the branch thr >= 1 computes none
getsCut(sv, mode, t, count) ==
  IF mode = PCA_THRESHOLD
  THEN IF t[1] < t[2] THEN getPcaCount(sv, t) ELSE -1
  ELSE IntOfHalves(count)

\* number of columns of an N-row matrix
Columns(m) == Len(m[1])

\* a directory creation that accepts a directory that is already there
makedirsExistOk(path, existing) == FALSE

\* os.makedirs(path) raises OSError when the directory exists
makedirsRaises(path, existing) == path \in existing

\* _getvhDel with _geteigen: os.makedirs raises when EigenFile exists,
\* otherwise the three arrays are saved and the matrix is returned
RankStage ==
  /\ pc = "svd"
  /\ IF makedirsRaises("EigenFile", dirs)
     THEN /\ pc' = "OSError"
          /\ UNCHANGED <<dirs, sCut, eigenFile, vhDel>>
     ELSE /\ dirs' = dirs \cup {"EigenFile"}
          /\ sCut' = getsCut(s, thresholdMode, thr, pcaCount)
          /\ vhDel' = getvhDel(vh, s, thresholdMode, thr, pcaCount)
          /\ eigenFile' = [eigenvalues |-> s, eigenvectors |-> vh,
                           matrix_vhDel |-> getvhDel(vh, s, thresholdMode, thr, pcaCount)]
          /\ pc' = "vhDel"
  /\ UNCHANGED <<listVol, fs, extraListing, thresholdMode, thr, pcaCount,
                 npAvgVol, cov_matrix, s, vh, baseMrcFile, matProj, coordFile>>
  /\ UNCHANGED <<refStar, ransac, cwd>>
  /\ UNCHANGED extVars

\* ------------------------------------------------------------- NEWBASE_AXIS
\* base after the first i pairs of izip(listVol, column c of vhDel)
RECURSIVE baseAcc(_, _, _, _, _)
baseAcc(lst, files, m, c, i) ==
  IF i = 0 THEN Zeros(lenght)
  ELSE VAdd(baseAcc(lst, files, m, c, i - 1), VScale(files[lst[i]], m[i][c]))

\* the volume saved as volume_base_<c-1>.mrc
volBase(lst, files, m, c) == baseAcc(lst, files, m, c, Len(lst))

ExtraFiles(files) == {f \in Files : InExtra(f) /\ files[f] # NoFile}

\* analyzePCAStep, lines 219-235: one file per column of vhDel.  The order
\* in which the directory then lists its files is not determined.
BaseStage ==
  /\ pc = "vhDel"
  /\ fs' = [f \in Files |->
              IF f[1] = "volume_base" /\ f[2] < Columns(vhDel)
              THEN volBase(listVol, fs, vhDel, f[2] + 1)
              ELSE fs[f]]
  /\ extraListing' \in Perms(ExtraFiles(fs'))
  /\ pc' = "base"
  /\ UNCHANGED <<listVol, dirs, thresholdMode, thr, pcaCount, npAvgVol,
                 cov_matrix, s, vh, sCut, eigenFile, vhDel, baseMrcFile, matProj, coordFile>>
  /\ UNCHANGED <<refStar, ransac, cwd>>
  /\ UNCHANGED extVars

\* ---------------------------------------------------------------- projection
\* glob(extra/*.mrc): the files in the order the directory lists them
glob(listing) == listing

\* row of matProj for the volume at path vol
projRow(files, avg, vol, baseFiles) ==
  [c \in 1..Len(baseFiles) |-> Dot(VSub(files[vol], avg), files[baseFiles[c]])]

\* analyzePCAStep, lines 237-251
ProjStage ==
  /\ pc = "base"
  /\ baseMrcFile' = glob(extraListing)
  /\ matProj' = [i \in 1..N |-> projRow(fs, npAvgVol, listVol[i], glob(extraListing))]
  /\ pc' = "proj"
  /\ UNCHANGED <<listVol, fs, dirs, extraListing, thresholdMode, thr, pcaCount,
                 npAvgVol, cov_matrix, s, vh, sCut, eigenFile, vhDel, coordFile>>
  /\ UNCHANGED <<refStar, ransac, cwd>>
  /\ UNCHANGED extVars

\* ------------------------------------------------------------ reconstruction
\* vol after the first c pairs of zip(baseMrcFile, row of matProj)
\* the accumulation with each coordinate paired with the file at the
\* mirrored position of the list
RECURSIVE reconAccMirrored(_, _, _, _)
reconAccMirrored(files, baseFiles, row, c) ==
  IF c = 0 THEN Zeros(lenght)
  ELSE VAdd(reconAccMirrored(files, baseFiles, row, c - 1),
            VScale(files[baseFiles[c]], row[Len(row) - c + 1]))

RECURSIVE reconAcc(_, _, _, _)
reconAcc(files, baseFiles, row, c) ==
  IF c = 0 THEN Zeros(lenght)
  ELSE VAdd(reconAcc(files, baseFiles, row, c - 1), VScale(files[baseFiles[c]], row[c]))

Min(a, b) == IF a < b THEN a ELSE b

\* finalVol for one row of matProj
finalVol(files, avg, baseFiles, row) ==
  VAdd(reconAcc(files, baseFiles, row, Min(Len(baseFiles), Len(row))), avg)

\* analyzePCAStep, lines 257-275: the directory is globbed a second time
ReconStage ==
  /\ pc = "proj"
  /\ IF makedirsRaises("original_vols", dirs)
     THEN /\ pc' = "OSError"
          /\ UNCHANGED <<dirs, fs>>
     ELSE /\ dirs' = dirs \cup {"original_vols"}
          /\ fs' = [f \in Files |->
                      IF f[1] = "volume_reconstructed" /\ f[2] < Len(matProj)
                      THEN finalVol(fs, npAvgVol, glob(extraListing), matProj[f[2] + 1])
                      ELSE fs[f]]
          /\ pc' = "recon"
  /\ UNCHANGED <<listVol, extraListing, thresholdMode, thr, pcaCount, npAvgVol,
                 cov_matrix, s, vh, sCut, eigenFile, vhDel, baseMrcFile, matProj, coordFile>>
  /\ UNCHANGED <<refStar, ransac, cwd>>
  /\ UNCHANGED extVars

\* ------------------------------------------------------------------ residual
ReconFiles(files) == {f \in Files : f[1] = "volume_reconstructed" /\ files[f] # NoFile}

\* analyzePCAStep, lines 278-299: glob(original_vols/*.mrc) lists the
\* reconstructions in an order that is not determined; they are zipped with
\* listVol, then the coordinates are saved
DiffStage ==
  /\ pc = "recon"
  /\ IF makedirsRaises("volDiff", dirs) \/ makedirsRaises("Coordinates", dirs)
     THEN /\ pc' = "OSError"
          /\ UNCHANGED <<dirs, fs, coordFile>>
     ELSE \E reconstMrcFile \in Perms(ReconFiles(fs)) :
          /\ dirs' = dirs \cup {"volDiff", "Coordinates"}
          /\ fs' = [f \in Files |->
                      IF f[1] = "volDiff" /\ f[2] < Min(Len(reconstMrcFile), N)
                      THEN VSub(fs[reconstMrcFile[f[2] + 1]], fs[listVol[f[2] + 1]])
                      ELSE fs[f]]
          /\ coordFile' = matProj
          /\ pc' = "done"
  /\ UNCHANGED <<listVol, extraListing, thresholdMode, thr, pcaCount, npAvgVol,
                 cov_matrix, s, vh, sCut, eigenFile, vhDel, baseMrcFile, matProj>>
  /\ UNCHANGED <<refStar, ransac, cwd>>
  /\ UNCHANGED extVars

Next ==
  \/ AverageStage
  \/ CovStage
  \/ SvdStage
  \/ RankStage
  \/ BaseStage
  \/ ProjStage
  \/ ReconStage
  \/ DiffStage

\* the pipeline up to and including the reconstruction stage
NextRecon ==
  \/ AverageStage
  \/ CovStage
  \/ SvdStage
  \/ RankStage
  \/ BaseStage
  \/ ProjStage
  \/ ReconStage

SpecRecon == Init /\ [][NextRecon]_vars

\* ------------------------------------------- the rank loop on its own inputs
\* any non-increasing sequence of non-negative singular values; the largest
\* one is positive, as it is for every matrix with a non-zero entry
RankInputs ==
  {q \in UNION {[1..n -> 0..MaxRankSing] : n \in 1..MaxRankLen} :
     NonIncreasing(q) /\ q[1] > 0}

\* thresholds in (0,1): two boundary-prone fractions and the default 0.95
RankThresholds == {<<1, 2>>, <<4, 5>>, <<19, 20>>}

InitRank ==
  /\ pc = "rankInput"
  /\ s \in RankInputs
  /\ thr \in RankThresholds
  /\ thresholdMode = PCA_THRESHOLD
  /\ pcaCount = 4
  /\ listVol = <<>>
  /\ fs = [f \in Files |-> NoFile]
  /\ dirs = {}
  /\ extraListing = <<>>
  /\ npAvgVol = None
  /\ cov_matrix = None
  /\ vh = None
  /\ sCut = -1
  /\ eigenFile = None
  /\ vhDel = None
  /\ baseMrcFile = None
  /\ matProj = None
  /\ coordFile = None
  /\ refStar = None
  /\ ransac = [r \in Runs |-> NoRun]
  /\ cwd = NoCwd
  /\ NoExtensions

\* _getvhDel lines 376-389, _getPcaCount, pcaStep lines 806-818
RankOnly ==
  /\ pc = "rankInput"
  /\ sCut' = getPcaCount(s, thr)
  /\ pc' = "ranked"
  /\ UNCHANGED <<listVol, fs, dirs, extraListing, thresholdMode, thr, pcaCount, npAvgVol,
                 cov_matrix, s, vh, eigenFile, vhDel, baseMrcFile, matProj, coordFile>>
  /\ UNCHANGED <<refStar, ransac, cwd>>
  /\ UNCHANGED extVars

NextRank ==
  \/ RankOnly

SpecRank == InitRank /\ [][NextRank]_vars

\* ------------------------------------------------ ProtClass3DRansac.pcaStep
\* values of the class constants the step compares ClusteringMethod with
Kmeans == 3
AP == 4

\* the values the form can store in ClusteringMethod: the indices 0 and 1 of
\* the two choices of the EnumParam, and the default 3 while it is untouched;
\* 4 is the other value the step tests for
ClusteringMethods == {0, 1, Kmeans, AP}

\* the threshold 0.95 of the rank loop of pcaStep
RansacThr == <<19, 20>>

\* listVol of pcaStep: extra/volume_1.mrc .. extra/volume_n.mrc, all distinct
Stacks(n) == [i \in 1..n |-> i]

\* pcaStep lines 833-847: mat_one[i][j] = np.dot(vol_i, vol_j), then
\* matProj = np.dot(mat_one, vhDel)
matOne(vols) ==
  [i \in 1..Len(vols) |-> [j \in 1..Len(vols) |-> Dot(vols[i], vols[j])]]

MatMul(a, b) ==
  [i \in 1..Len(a) |->
     [c \in 1..Columns(b) |-> SumSeq([j \in 1..Len(b) |-> a[i][j] * b[j][c]])]]

\* sklearn KMeans(n_clusters = k).fit(m).labels_: a label below k for every
\* row, equal rows labelled alike.  The initial centres come from the global
\* random state, so which of these labelings is returned is not determined.
KMeansLabels(m, k) ==
  {l \in [1..Len(m) -> 0..(k - 1)] :
     \A i, j \in 1..Len(m) : m[i] = m[j] => l[i] = l[j]}

\* sklearn AffinityPropagation(damping = 0.9).fit(m).labels_ after
\* convergence: the exemplars are numbered from 0, equal rows labelled alike
AffPropLabels(m) ==
  {l \in [1..Len(m) -> 0..(Len(m) - 1)] :
     \A i, j \in 1..Len(m) : m[i] = m[j] => l[i] = l[j]}

\* the labels AffinityPropagation returns when it has not converged
NoCluster(m) == [i \in 1..Len(m) |-> -1]

\* pcaStep lines 758-776.  The lookup of the file name template either
\* returns or raises; the bare except replaces whatever was raised by the
\* path map_average.mrc and the step goes on.
RAverageStage(r) ==
  /\ ransac[r].pc = "start"
  /\ \E failed \in BOOLEAN :
       ransac' = [ransac EXCEPT ![r] =
                    [@ EXCEPT !.raised = failed,
                              !.avgVol = IF failed THEN "map_average.mrc" ELSE "avgMap",
                              !.npAvgVol = getAverageVol(Stacks(Len(ransac[r].vols)), ransac[r].vols),
                              !.avgFile = getAverageVol(Stacks(Len(ransac[r].vols)), ransac[r].vols),
                              !.pc = "average"]]
  /\ UNCHANGED <<pc, listVol, fs, dirs, extraListing, thresholdMode, thr, pcaCount,
                 npAvgVol, cov_matrix, s, vh, sCut, eigenFile, vhDel, baseMrcFile,
                 matProj, coordFile, refStar, cwd>>
  /\ UNCHANGED extVars

\* pcaStep lines 779-799
RCovStage(r) ==
  /\ ransac[r].pc = "average"
  /\ ransac' = [ransac EXCEPT ![r] =
                  [@ EXCEPT !.cov_matrix = covMatrix(Stacks(Len(ransac[r].vols)), ransac[r].vols, ransac[r].npAvgVol),
                            !.pc = "cov"]]
  /\ UNCHANGED <<pc, listVol, fs, dirs, extraListing, thresholdMode, thr, pcaCount,
                 npAvgVol, cov_matrix, s, vh, sCut, eigenFile, vhDel, baseMrcFile,
                 matProj, coordFile, refStar, cwd>>
  /\ UNCHANGED extVars

\* pcaStep lines 805-827: the decomposition, the rank loop and the three
\* files, which _createMFile opens by their bare names in the working
\* directory of the process
RSvdStage(r) ==
  /\ ransac[r].pc = "cov"
  /\ IF HasNaN(ransac[r].cov_matrix)
     THEN /\ \E e \in {"LinAlgError", "svdNaN"} :
               ransac' = [ransac EXCEPT ![r] = [@ EXCEPT !.pc = e]]
          /\ UNCHANGED cwd
     ELSE \E sv \in SingularValues(Len(ransac[r].vols)),
             m \in SingularVectors(Len(ransac[r].vols)) :
            /\ ransac' = [ransac EXCEPT ![r] =
                            [@ EXCEPT !.s = sv,
                                      !.vh = m,
                                      !.sCut = getPcaCount(sv, RansacThr),
                                      !.vhDel = deleteAndTranspose(m, getPcaCount(sv, RansacThr)),
                                      !.pc = "vhDel"]]
            /\ cwd' = [cwd EXCEPT !["eigenvalues.txt"] = sv,
                                  !["eigenvectors.txt"] = m,
                                  !["matrix_vhDel.txt"] =
                                     deleteAndTranspose(m, getPcaCount(sv, RansacThr))]
  /\ UNCHANGED <<pc, listVol, fs, dirs, extraListing, thresholdMode, thr, pcaCount,
                 npAvgVol, cov_matrix, s, vh, sCut, eigenFile, vhDel, baseMrcFile,
                 matProj, coordFile, refStar>>
  /\ UNCHANGED extVars

\* pcaStep lines 833-864: matProj is computed, then item[1] raises
\* IndexError when matProj has fewer than two columns, before any of the
\* three coordinate files is written
RProjStage(r) ==
  /\ ransac[r].pc = "vhDel"
  /\ LET proj == MatMul(matOne(ransac[r].vols), ransac[r].vhDel)
     IN IF Columns(proj) < 2
        THEN /\ ransac' = [ransac EXCEPT ![r] =
                               [@ EXCEPT !.matProj = proj, !.pc = "IndexError"]]
             /\ UNCHANGED cwd
        ELSE /\ ransac' = [ransac EXCEPT ![r] = [@ EXCEPT !.matProj = proj, !.pc = "proj"]]
             /\ cwd' = [cwd EXCEPT !["matProj_splic.txt"] = proj,
                                   !["x_proj_splic.txt"] = [i \in 1..Len(proj) |-> proj[i][1]],
                                   !["y_proj_splic.txt"] = [i \in 1..Len(proj) |-> proj[i][2]]]
  /\ UNCHANGED <<pc, listVol, fs, dirs, extraListing, thresholdMode, thr, pcaCount,
                 npAvgVol, cov_matrix, s, vh, sCut, eigenFile, vhDel, baseMrcFile,
                 matProj, coordFile, refStar>>
  /\ UNCHANGED extVars

\* pcaStep lines 868-880: KMeans when the parameter holds 3,
\* AffinityPropagation when it holds 4, nothing otherwise.  Neither result
\* is tested for convergence.
RClusterStage(r) ==
  /\ ransac[r].pc = "proj"
  /\ IF ransac[r].method = Kmeans
     THEN \E conv \in BOOLEAN :
          \E l \in KMeansLabels(ransac[r].matProj, Columns(ransac[r].matProj)) :
            ransac' = [ransac EXCEPT ![r] =
                         [@ EXCEPT !.nClusters = Columns(ransac[r].matProj),
                                   !.converged = conv,
                                   !.op = l,
                                   !.pc = "done"]]
     ELSE IF ransac[r].method = AP
     THEN \E conv \in BOOLEAN :
          \E l \in (IF conv THEN AffPropLabels(ransac[r].matProj)
                              ELSE {NoCluster(ransac[r].matProj)}) :
            ransac' = [ransac EXCEPT ![r] =
                         [@ EXCEPT !.converged = conv, !.op = l, !.pc = "done"]]
     ELSE ransac' = [ransac EXCEPT ![r] = [@ EXCEPT !.pc = "done"]]
  /\ UNCHANGED <<pc, listVol, fs, dirs, extraListing, thresholdMode, thr, pcaCount,
                 npAvgVol, cov_matrix, s, vh, sCut, eigenFile, vhDel, baseMrcFile,
                 matProj, coordFile, refStar, cwd>>
  /\ UNCHANGED extVars

\* a run as _insertAllSteps leaves it before pcaStep: n volumes written by
\* reconstruct3DStep, the clustering parameter, and the number of clusters
\* its caller would like, for which the form has no parameter
NewRun(v, m, w) ==
  [NoRun EXCEPT !.pc = "start", !.vols = v, !.method = m, !.wanted = w]

\* the protocol ProtLandscapePCA is not run
NoLandscape ==
  /\ pc = "ransac"
  /\ listVol = <<>>
  /\ fs = [f \in Files |-> NoFile]
  /\ dirs = {}
  /\ extraListing = <<>>
  /\ thresholdMode = PCA_THRESHOLD
  /\ thr = RansacThr
  /\ pcaCount = 4
  /\ npAvgVol = None
  /\ cov_matrix = None
  /\ s = None
  /\ vh = None
  /\ sCut = -1
  /\ eigenFile = None
  /\ vhDel = None
  /\ baseMrcFile = None
  /\ matProj = None
  /\ coordFile = None
  /\ refStar = None

\* one run of the protocol
InitRansac ==
  /\ NoLandscape
  /\ cwd = NoCwd
  /\ \E v \in UNION {[1..n -> Volumes] : n \in 2..MaxN},
        m \in ClusteringMethods, w \in 1..MaxN :
       ransac = [r \in Runs |-> IF r = 1 THEN NewRun(v, m, w) ELSE NoRun]
  /\ NoExtensions

NextRansac ==
  \E r \in Runs :
    \/ RAverageStage(r)
    \/ RCovStage(r)
    \/ RSvdStage(r)
    \/ RProjStage(r)
    \/ RClusterStage(r)

SpecRansac == InitRansac /\ [][NextRansac]_vars

\* two volumes that differ in every voxel
VolX == [t \in 1..lenght |-> IF t = 1 THEN 0 ELSE Unit]
VolY == [t \in 1..lenght |-> IF t = 1 THEN Unit ELSE 0]

\* two runs of the protocol in one project, each on its own three volumes
InitTwoRuns ==
  /\ NoLandscape
  /\ cwd = NoCwd
  /\ \E v \in [Runs -> {<<VolX, VolY, VolY>>, <<VolX, VolX, VolY>>}],
        m \in [Runs -> {0, Kmeans, AP}] :
       ransac = [r \in Runs |-> NewRun(v[r], m[r], 2)]
  /\ NoExtensions

SpecTwoRuns == InitTwoRuns /\ [][NextRansac]_vars

\* four volumes that are two copies each of two shapes
TwoShapes(a, b) == <<a, a, b, b>>

\* one run of pcaStep on the volumes A, A, B, B
InitTwoShapes ==
  /\ NoLandscape
  /\ cwd = NoCwd
  /\ \E a, b \in Volumes, m \in ClusteringMethods, w \in 1..MaxN :
       /\ a # b
       /\ ransac = [r \in Runs |-> IF r = 1 THEN NewRun(TwoShapes(a, b), m, w) ELSE NoRun]
  /\ NoExtensions

SpecTwoShapes == InitTwoShapes /\ [][NextRansac]_vars

\* the run up to the correlation matrix (analyzePCAStep lines 173-213)
NextCov ==
  \/ AverageStage
  \/ CovStage

SpecCov == Init /\ [][NextCov]_vars

\* analyzePCAStep is executed again in the working directory of a finished
\* execution: the files and directories are as the first execution left
\* them, the locals of the step start afresh
Rerun ==
  /\ pc = "done"
  /\ pc' = "start"
  /\ npAvgVol' = None
  /\ cov_matrix' = None
  /\ s' = None
  /\ vh' = None
  /\ sCut' = -1
  /\ vhDel' = None
  /\ baseMrcFile' = None
  /\ matProj' = None
  /\ UNCHANGED <<listVol, fs, dirs, extraListing, thresholdMode, thr, pcaCount,
                 eigenFile, coordFile>>
  /\ UNCHANGED <<refStar, ransac, cwd>>
  /\ UNCHANGED extVars

NextRerun ==
  \/ Next
  \/ Rerun

\* a run with the default threshold, and its second execution
InitRerun == Init /\ thresholdMode = PCA_THRESHOLD /\ thr = <<19, 20>>

SpecRerun == InitRerun /\ [][NextRerun]_vars

\* both variants on one list of two volume files: ProtLandscapePCA in
\* threshold mode with the default threshold, and one run of pcaStep whose
\* volume_1.mrc, volume_2.mrc hold what the files of that list hold
InitBoth ==
  /\ pc = "start"
  /\ listVol = <<<<"in", 1>>, <<"in", 2>>>>
  /\ \E vols \in [Paths -> Volumes] :
       /\ fs = [f \in Files |-> IF f \in Paths THEN vols[f] ELSE NoFile]
       /\ ransac = [r \in Runs |->
                      IF r = 1
                      THEN NewRun(<<vols[<<"in", 1>>], vols[<<"in", 2>>]>>, Kmeans, 2)
                      ELSE NoRun]
  /\ dirs = {}
  /\ extraListing = <<>>
  /\ thresholdMode = PCA_THRESHOLD
  /\ thr = <<19, 20>>
  /\ pcaCount = 4
  /\ npAvgVol = None
  /\ cov_matrix = None
  /\ s = None
  /\ vh = None
  /\ sCut = -1
  /\ eigenFile = None
  /\ vhDel = None
  /\ baseMrcFile = None
  /\ matProj = None
  /\ coordFile = None
  /\ refStar = None
  /\ cwd = NoCwd
  /\ NoExtensions

\* analyzePCAStep up to its projection, pcaStep up to its projection
NextBoth ==
  \/ AverageStage
  \/ CovStage
  \/ SvdStage
  \/ RankStage
  \/ BaseStage
  \/ ProjStage
  \/ RAverageStage(1)
  \/ RCovStage(1)
  \/ RSvdStage(1)
  \/ RProjStage(1)

SpecBoth == InitBoth /\ [][NextBoth]_vars

\* complete runs in threshold mode
InitThreshold == Init /\ thresholdMode = PCA_THRESHOLD

SpecThreshold == InitThreshold /\ [][Next]_vars

Spec == Init /\ [][Next]_vars

\* ===================================================================== claims
\* the elementwise arithmetic mean of all entries of the list
RECURSIVE SumAll(_, _, _)
SumAll(lst, files, i) ==
  IF i = 0 THEN Zeros(Len(files[lst[1]])) ELSE VAdd(SumAll(lst, files, i - 1), files[lst[i]])

MeanVol(lst, files) == Divide(SumAll(lst, files, Len(lst)), Len(lst))

\* sum of the first j singular values
Prefix(sv, j) == SumSeq(SubSeq(sv, 1, j))

\* the cumulative sum of the first j values strictly exceeds t * total
Exceeds(sv, t, j) == Prefix(sv, j) * t[2] > t[1] * SumSeq(sv)

\* the cumulative sum of the first j values reaches t * total
Reaches(sv, t, j) == Prefix(sv, j) * t[2] >= t[1] * SumSeq(sv)

C2_RankWithinBounds ==
  vhDel # None => 1 <= Columns(vhDel) /\ Columns(vhDel) <= N - 1

\* C3: in fixed-count mode k equals the requested count when
\* 1 <= count <= N - 1, and for count >= N no eigen-data is saved and no
\* basis file is written.
C3_FixedCount ==
  (thresholdMode = PCA_COUNT /\ pcaCount % 2 = 0) =>
    /\ (vhDel # None /\ 1 <= pcaCount \div 2 /\ pcaCount \div 2 <= N - 1
          => Columns(vhDel) = pcaCount \div 2)
    /\ (pcaCount \div 2 >= N
          => eigenFile = None /\ \A c \in 0..(MaxN - 1) : fs[BaseFile(c)] = NoFile)

\* C4: the average is the elementwise sum of all N list entries divided by
\* N, every entry counted once, also when a path occurs more than once.
C4_AverageIsMean ==
  npAvgVol # None => npAvgVol = MeanVol(listVol, fs)

\* C5: eigenvolume c is the sum over i of V[i,c] * (volume_i - average).
C5_CentredBasis ==
  pc \in {"base", "proj", "recon", "done"} =>
    \A c \in 1..Columns(vhDel) : \A t \in 1..lenght :
      fs[BaseFile(c - 1)][t] =
        SumSeq([i \in 1..N |-> vhDel[i][c] * (fs[listVol[i]][t] - npAvgVol[t])])

\* C6: the coordinate at row i, column c is the inner product of
\* (volume_i - average) with eigenvolume c of this run.
C6_CoordinateOfBasisC ==
  pc \in {"proj", "recon", "done"} =>
    \A i \in 1..N : \A c \in 1..Columns(vhDel) :
      /\ c <= Len(matProj[i])
      /\ matProj[i][c] = Dot(VSub(fs[listVol[i]], npAvgVol), fs[BaseFile(c - 1)])

\* C7: every coordinate vector has length k, whatever other volume files the
\* working directory already holds.
C7_CoordinateLength ==
  pc \in {"proj", "recon", "done"} =>
    /\ Len(matProj) = N
    /\ \A i \in 1..N : Len(matProj[i]) = Columns(vhDel)

\* C8: reconstruction i is the average plus the sum of every coordinate of
\* volume i times the basis file that produced that coordinate in the
\* projection stage.
C8_ReconstructionPairs ==
  pc \in {"recon", "done"} =>
    \A i \in 1..N : \A t \in 1..lenght :
      fs[ReconFile(i - 1)][t] =
        npAvgVol[t]
          + SumSeq([c \in 1..Len(matProj[i]) |-> matProj[i][c] * fs[baseMrcFile[c]][t]])

C8_Witness ==
  /\ pc = "recon"
  /\ Len(baseMrcFile) >= 2
  /\ baseMrcFile[1] = BaseFile(1)
  /\ \E i \in 1..N :
       /\ matProj[i][1] # matProj[i][2]
       /\ matProj[i][1] # 0
       /\ fs[ReconFile(i - 1)] # npAvgVol

\* C9: residual i is the difference between input volume i and the
\* reconstruction of volume i.
C9_ResidualOfSameVolume ==
  pc = "done" =>
    \A i \in 1..N :
      fs[DiffFile(i - 1)] \in {VSub(fs[ReconFile(i - 1)], fs[listVol[i]]),
                               VSub(fs[listVol[i]], fs[ReconFile(i - 1)])}

\* C10: a correlation matrix with NaN entries is never returned by the
\* matrix stage nor handed to the decomposition.
C10_NoNaNMatrix == ~HasNaN(cov_matrix)

\* C11: a list of fewer than two volumes, or of volumes whose dimensions
\* differ, is rejected before anything is written and before the average is
\* computed: the references file, the average map and the average in memory
\* are all still absent, and no stage has run.
C11_RejectedAtConstruction ==
  (N < 2 \/ ShapeMismatch(listVol, fs)) =>
     /\ pc = "start"
     /\ refStar = None
     /\ fs[AvgMap] = NoFile
     /\ npAvgVol = None


\* the deviation of the i-th volume of the list from the average, centred
Deviation(i) == Centred(VSub(fs[listVol[i]], npAvgVol))

\* no volume of the list has a deviation of zero variance
NonDegenerate == \A i \in 1..N : Dot(Deviation(i), Deviation(i)) > 0

\* C12: for N >= 2 non-degenerate volumes of one dimension the correlation
\* matrix has N rows of N entries, is symmetric, has 1 on its diagonal, and
\* its entry (i, j) belongs to the i-th and j-th volume of the list: it has
\* the sign of the covariance of their deviations from the average.
C12_CorrelationMatrixShape ==
  (pc = "cov" /\ N >= 2 /\ NonDegenerate) =>
     /\ Len(cov_matrix) = N
     /\ \A i \in 1..N :
          /\ Len(cov_matrix[i]) = N
          /\ cov_matrix[i][i] = [num |-> 1, den |-> 1]
          /\ \A j \in 1..N :
               /\ cov_matrix[i][j] = cov_matrix[j][i]
               /\ cov_matrix[i][j].den > 0
               /\ (cov_matrix[i][j].num > 0) = (Dot(Deviation(i), Deviation(j)) > 0)
               /\ (cov_matrix[i][j].num < 0) = (Dot(Deviation(i), Deviation(j)) < 0)

\* three volumes, none degenerate, two of them with different variances and
\* an anti-correlated pair, after the correlation stage
C12_Witness ==
  /\ pc = "cov"
  /\ N = 3
  /\ NonDegenerate
  /\ \E i, j \in 1..N :
       /\ Dot(Deviation(i), Deviation(i)) # Dot(Deviation(j), Deviation(j))
       /\ cov_matrix[i][j].num < 0


\* the orders in which the list of identifiers can be handed over
Reorderings(lst) ==
  {[i \in 1..Len(lst) |-> lst[p[i]]] : p \in Perms(1..Len(lst))}

\* C16: the average does not depend on the order of the list: every
\* reordering of the list of identifiers gives the average that was computed.
C16_AverageOrderIndependent ==
  (pc = "average") =>
     \A q \in Reorderings(listVol) : getAverageVol(q, fs) = npAvgVol


\* a file of the basis written by this run
IsBasisOfRun(f) == f[1] = "volume_base" /\ f[2] < Columns(vhDel)

\* C15: the coordinates of a volume are a function of the volume, the
\* average and the basis of this run only: they are what the projection
\* gives over the basis files of the run alone, whatever else the working
\* directory holds.
C15_ProjectionOfRunOnly ==
  pc \in {"proj", "recon", "done"} =>
    \A i \in 1..N :
      matProj[i] = projRow(fs, npAvgVol, listVol[i],
                           SelectSeq(baseMrcFile, IsBasisOfRun))


\* C13: a stage fails fast.  Once an error has been raised in a run, no
\* substitute value stands in for the failed result and no later stage of
\* the run has produced anything.
C13_FailFast ==
  \A r \in Runs :
    ransac[r].raised =>
      /\ ransac[r].avgVol = ""
      /\ ransac[r].npAvgVol = None
      /\ ransac[r].pc \notin {"average", "cov", "vhDel", "proj", "done"}

\* the stages after which a run has written its decomposition, and its
\* coordinates
Decomposed == {"vhDel", "IndexError", "proj", "done"}
Projected == {"proj", "done"}

\* C14: runs on different volume sets that execute side by side share no
\* file: what a run has written (eigenvalues, eigenvectors, truncated basis,
\* coordinates) is what the files hold, as when the run is alone.
C14_RunsShareNothing ==
  \A r \in Runs :
    (\A q \in Runs \ {r} : ransac[q].vols # ransac[r].vols) =>
    /\ ransac[r].pc \in Decomposed =>
         /\ cwd["eigenvalues.txt"] = ransac[r].s
         /\ cwd["eigenvectors.txt"] = ransac[r].vh
         /\ cwd["matrix_vhDel.txt"] = ransac[r].vhDel
    /\ ransac[r].pc \in Projected =>
         /\ cwd["matProj_splic.txt"] = ransac[r].matProj
         /\ cwd["x_proj_splic.txt"] = [i \in 1..Len(ransac[r].matProj) |-> ransac[r].matProj[i][1]]
         /\ cwd["y_proj_splic.txt"] = [i \in 1..Len(ransac[r].matProj) |-> ransac[r].matProj[i][2]]

\* C17: the number of clusters requested from k-means is the number the
\* caller supplied, whatever the rank and the coordinates.
C17_CallerSuppliedCount ==
  \A r \in Runs :
    ransac[r].nClusters # -1 => ransac[r].nClusters = ransac[r].wanted

\* C18: a clustering that has not converged returns no labeling: the run
\* holds labels only if the iteration converged, and then every label names
\* a cluster.
C18_NoLabelsWithoutConvergence ==
  \A r \in Runs :
    ransac[r].op # None =>
      /\ ransac[r].converged
      /\ \A i \in 1..Len(ransac[r].op) : ransac[r].op[i] >= 0

\* C19: when the parameter holds one of the two values the form offers
\* (0 for Kmeans, 1 for AffinityPropagation) the finished step has run the
\* method of that name and holds one label per coordinate vector.
C19_SelectedMethodRuns ==
  \A r \in Runs :
    (ransac[r].pc = "done" /\ ransac[r].method \in {0, 1}) =>
      /\ Len(ransac[r].op) = Len(ransac[r].vols)
      /\ (ransac[r].method = 0) = (ransac[r].nClusters # -1)

\* C20: k-means that converges on identical coordinates with the same number
\* of clusters gives identical labels in every run.
C20_KMeansRepeatable ==
  \A r1, r2 \in Runs :
    ( /\ ransac[r1].pc = "done" /\ ransac[r2].pc = "done"
      /\ ransac[r1].method = Kmeans /\ ransac[r2].method = Kmeans
      /\ ransac[r1].converged /\ ransac[r2].converged
      /\ ransac[r1].matProj = ransac[r2].matProj
      /\ ransac[r1].nClusters = ransac[r2].nClusters )
    => ransac[r1].op = ransac[r2].op


\* the volumes of the run are A, A, B, B with two shapes that are not
\* degenerate: neither differs from the average by a constant
IsTwoShapes(r) ==
  /\ Len(ransac[r].vols) = 4
  /\ ransac[r].vols[1] = ransac[r].vols[2]
  /\ ransac[r].vols[3] = ransac[r].vols[4]
  /\ ~HasNaN(covMatrix(Stacks(4), ransac[r].vols,
                       getAverageVol(Stacks(4), ransac[r].vols)))

\* C21: on A, A, B, B with k-means selected the step runs to completion,
\* also with a one-column projection, and a finished run holds the two
\* clusters {A, A} and {B, B}.
C21_TwoShapesTwoClusters ==
  \A r \in Runs :
    (IsTwoShapes(r) /\ ransac[r].method = Kmeans) =>
      /\ ransac[r].pc \notin {"IndexError", "LinAlgError", "svdNaN"}
      /\ ransac[r].pc = "done" =>
           /\ ransac[r].op[1] = ransac[r].op[2]
           /\ ransac[r].op[3] = ransac[r].op[4]
           /\ ransac[r].op[1] # ransac[r].op[3]


\* C22: no step of the pipeline changes an input volume file: whatever is
\* written goes to another file.
C22_InputsUnchanged ==
  [][\A p \in Paths : fs'[p] = fs[p]]_vars

\* a complete run that has written the average, an eigenvolume, a
\* reconstruction and a residual, on inputs that differ from the average
C22_Witness ==
  /\ pc = "done"
  /\ fs[AvgMap] # NoFile
  /\ fs[BaseFile(0)] # NoFile
  /\ fs[ReconFile(0)] # NoFile
  /\ fs[DiffFile(0)] # NoFile
  /\ \A i \in 1..N : fs[listVol[i]] # fs[AvgMap]


\* the step is in its second execution: the directory EigenFile of the first
\* execution exists while the step is before, or failing at, its creation
InSecondExecution ==
  /\ "EigenFile" \in dirs
  /\ pc \in {"start", "average", "cov", "svd", "OSError", "LinAlgError", "svdNaN"}

\* the files the first execution saved, apart from the average
SavedOutputs ==
  <<eigenFile, coordFile,
    [f \in {g \in Files : g[1] \in {"volume_base", "volume_reconstructed", "volDiff"}} |-> fs[f]]>>

\* C30: a second execution in the same working directory never gets past
\* the creation of EigenFile, and no step of it changes the eigen files, the
\* eigenvolumes, the reconstructions, the residuals or the coordinates of
\* the first execution.
C30_SecondExecutionFails ==
  [][InSecondExecution =>
       /\ InSecondExecution'
       /\ SavedOutputs' = SavedOutputs]_vars

\* the second execution has failed at EigenFile with every output of the
\* first execution in place
C30_Witness ==
  /\ pc = "OSError"
  /\ dirs = {"EigenFile", "original_vols", "volDiff", "Coordinates"}
  /\ coordFile # None
  /\ s # None


\* both variants have computed their coordinates, and the decomposition
\* routine has returned the same factors to both
BothProjected ==
  /\ pc = "proj"
  /\ ransac[1].pc \in {"proj", "IndexError"}
  /\ ransac[1].s = s
  /\ ransac[1].vh = vh

\* C26: on the same ordered list of volumes the two variants compute the
\* same average, correlation matrix, rank, retained singular vectors and
\* projection coordinates.
C26_VariantsAgree ==
  BothProjected =>
    /\ ransac[1].npAvgVol = npAvgVol
    /\ ransac[1].cov_matrix = cov_matrix
    /\ ransac[1].sCut = sCut
    /\ ransac[1].vhDel = vhDel
    /\ ransac[1].matProj = matProj


(***************************************************************************)
(* convert31.OpticsGroups: the optics groups of a star file, indexed by    *)
(* number (_dict, an OrderedDict, here the sequence of its values in       *)
(* insertion order) and by name (_dictName, here a function of the names). *)
(***************************************************************************)
MaxOg == 2

OgNumbers == 1..MaxOg

OgNames == {"a", "b"}

Voltages == {200, 300}

\* the value of a column that addColumns adds; 0 when the table has no such column
ExtraValues == {0, 1}

OgRecords ==
  [rlnOpticsGroup : OgNumbers, rlnOpticsGroupName : OgNames,
   rlnVoltage : Voltages, extra : ExtraValues]

\* self._dict[item] of __getitem__ for an int; KeyError when absent
HasNumber(d, n) == \E i \in DOMAIN d : d[i].rlnOpticsGroup = n

GetByNumber(d, n) == d[CHOOSE i \in DOMAIN d : d[i].rlnOpticsGroup = n]

\* self._dict[og.rlnOpticsGroup] = og: an existing key keeps its position
StoreNumber(d, og) ==
  IF HasNumber(d, og.rlnOpticsGroup)
  THEN [d EXCEPT ![CHOOSE i \in DOMAIN d :
                     d[i].rlnOpticsGroup = og.rlnOpticsGroup] = og]
  ELSE Append(d, og)

\* self._dictName[og.rlnOpticsGroupName] = og
StoreName(dn, og) ==
  [k \in DOMAIN dn \cup {og.rlnOpticsGroupName} |->
     IF k = og.rlnOpticsGroupName THEN og ELSE dn[k]]

\* __store applied to a pair <<_dict, _dictName>>
store(both, og) == <<StoreNumber(both[1], og), StoreName(both[2], og)>>

\* __fromTable: two empty dictionaries, then __store of every row in order
RECURSIVE fromTable(_)
fromTable(rows) ==
  IF rows = <<>> THEN << <<>>, <<>> >>
  ELSE store(fromTable(SubSeq(rows, 1, Len(rows) - 1)), rows[Len(rows)])

\* og._replace(**kwargs) for a single keyword
replace(og, field, value) ==
  CASE field = "rlnOpticsGroup" -> [og EXCEPT !.rlnOpticsGroup = value]
    [] field = "rlnOpticsGroupName" -> [og EXCEPT !.rlnOpticsGroupName = value]
    [] field = "rlnVoltage" -> [og EXCEPT !.rlnVoltage = value]

\* the keywords update is called with, and the values of each
Keywords ==
  ({"rlnOpticsGroup"} \X OgNumbers) \cup ({"rlnOpticsGroupName"} \X OgNames)
    \cup ({"rlnVoltage"} \X Voltages)

\* update(ogId, **kwargs) on a pair of dictionaries, ogId a present number
updateByNumber(both, n, kw) ==
  store(both, replace(GetByNumber(both[1], n), kw[1], kw[2]))

\* the first i steps of the loop of updateAll over the values of _dict
RECURSIVE updateFirst(_, _, _)
updateFirst(both, i, kw) ==
  IF i = 0 THEN both
  ELSE LET sofar == updateFirst(both, i - 1, kw)
       IN updateByNumber(sofar, sofar[1][i].rlnOpticsGroup, kw)

\* update(ogId, **kwargs), ogId a number or a name that is present
update ==
  /\ _dict # <<>>
  /\ \E kw \in Keywords :
       \/ \E n \in OgNumbers :
            /\ HasNumber(_dict, n)
            /\ _dict' = updateByNumber(<<_dict, _dictName>>, n, kw)[1]
            /\ _dictName' = updateByNumber(<<_dict, _dictName>>, n, kw)[2]
       \/ \E nm \in DOMAIN _dictName :
            LET newOg == replace(_dictName[nm], kw[1], kw[2])
            IN /\ _dict' = store(<<_dict, _dictName>>, newOg)[1]
               /\ _dictName' = store(<<_dict, _dictName>>, newOg)[2]
  /\ UNCHANGED <<coreVars, directionalVars, classify, writer, reader>>

\* updateAll(**kwargs); a keyword that changes the number would add keys to
\* the dictionary under iteration, so only the other columns are given
updateAll ==
  /\ _dict # <<>>
  /\ \E kw \in Keywords :
       /\ kw[1] # "rlnOpticsGroup"
       /\ _dict' = updateFirst(<<_dict, _dictName>>, Len(_dict), kw)[1]
       /\ _dictName' = updateFirst(<<_dict, _dictName>>, Len(_dict), kw)[2]
  /\ UNCHANGED <<coreVars, directionalVars, classify, writer, reader>>

\* add(newOg)
add ==
  /\ _dict # <<>>
  /\ \E newOg \in OgRecords :
       /\ newOg.extra = _dict[1].extra
       /\ _dict' = store(<<_dict, _dictName>>, newOg)[1]
       /\ _dictName' = store(<<_dict, _dictName>>, newOg)[2]
  /\ UNCHANGED <<coreVars, directionalVars, classify, writer, reader>>

\* addColumns(**kwargs): a table of the values of _dict with the new column,
\* from which both dictionaries are built again
addColumns ==
  /\ _dict # <<>>
  /\ \E v \in ExtraValues \ {0} :
       LET t == [i \in DOMAIN _dict |-> [_dict[i] EXCEPT !.extra = v]]
       IN /\ _dict' = fromTable(t)[1]
          /\ _dictName' = fromTable(t)[2]
  /\ UNCHANGED <<coreVars, directionalVars, classify, writer, reader>>

\* the optics tables of a star file: rows with distinct numbers and names
OpticsTables ==
  {t \in UNION {[1..k -> OgRecords] : k \in 1..MaxOg} :
     /\ \A i \in DOMAIN t : t[i].extra = 0
     /\ \A i, j \in DOMAIN t :
          i # j => /\ t[i].rlnOpticsGroup # t[j].rlnOpticsGroup
                   /\ t[i].rlnOpticsGroupName # t[j].rlnOpticsGroupName}

\* OpticsGroups(opticsTable)
InitOptics ==
  /\ NoLandscape
  /\ ransac = [r \in Runs |-> NoRun]
  /\ cwd = NoCwd
  /\ NoDirectional
  /\ NoClassify
  /\ NoWriter
  /\ NoReader
  /\ \E t \in OpticsTables :
       /\ _dict = fromTable(t)[1]
       /\ _dictName = fromTable(t)[2]

NextOptics == update \/ updateAll \/ add \/ addColumns

SpecOptics == InitOptics /\ [][NextOptics]_vars

\* C23: after any sequence of add, update, updateAll and addColumns every
\* group of the iteration is found under its name, the lookup by name gives
\* the record the lookup by number gives, and no name gives a record that is
\* not the current record of its number.
C23_LookupsAgree ==
  /\ \A i \in DOMAIN _dict :
       /\ _dict[i].rlnOpticsGroupName \in DOMAIN _dictName
       /\ _dictName[_dict[i].rlnOpticsGroupName] = _dict[i]
  /\ \A nm \in DOMAIN _dictName :
       /\ HasNumber(_dict, _dictName[nm].rlnOpticsGroup)
       /\ GetByNumber(_dict, _dictName[nm].rlnOpticsGroup) = _dictName[nm]


(***************************************************************************)
(* ProtClass3DRansac.classify2DStep and randomSelectionStep.  The blocks   *)
(* of neighbours.xmd are given by their particle counts; a block of        *)
(* directionalClasses.xmd by its direction and its number of rows, one row *)
(* per class average.                                                      *)
(***************************************************************************)
MaxBlocks == 2

MaxParticles == 3

MaxNop == 2

MaxRandomIteration == 2

CL2D == 0

ML2D == 1

RL2D == 2

\* getSize(fnBlock) of a direction: a few particles, or a few hundred
ParticleCounts == (1..MaxParticles) \cup {250}

\* int(totset / nop) + 1 of the CL2D and ML2D branches
finsetOfParticles(totset, nop) == (totset \div nop) + 1

\* int(totset / 100) + 1 of the RL2D branch and of randomSelectionStep
finsetOfHundred(totset) == (totset \div 100) + 1

\* the outcomes of "getSize > nop", a function compared with an integer:
\* True where functions and numbers are ordered by type, an error elsewhere
FunctionGreaterThanInt == {"True", "TypeError"}

\* the end of the loop over the blocks of neighbours.xmd: randomSelectionStep
\* follows, and reads directionalClasses.xmd
AfterBlock(d) ==
  IF d.block <= Len(d.fnNeighbours) THEN d
  ELSE IF d.fnDirectional = <<>> THEN [d EXCEPT !.pc = "nofile"]
  ELSE [d EXCEPT !.pc = "select"]

\* the job of a block and the rows written to its block of directionalClasses.xmd
Classified(d, program, finset) ==
  [d EXCEPT !.jobs = Append(@, [program |-> program, block |-> d.block,
                                size |-> d.fnNeighbours[d.block],
                                nref |-> finset]),
            !.fnDirectional = Append(@, [block |-> d.block, rows |-> finset]),
            !.block = @ + 1]

\* one pass of the loop of classify2DStep
classify2DStep ==
  /\ directional.pc = "classify"
  /\ LET d == directional
         size == d.fnNeighbours[d.block]
         skip == [d EXCEPT !.block = @ + 1]
     IN \/ /\ Class2D \in {CL2D, ML2D}
           /\ directional' =
                IF size > noOfParticles
                THEN IF noOfParticles = 0
                     THEN [d EXCEPT !.pc = "ZeroDivisionError"]
                     ELSE AfterBlock(Classified(d,
                            IF Class2D = CL2D THEN "xmipp_classify_CL2D"
                            ELSE "xmipp_ml_align2d",
                            finsetOfParticles(size, noOfParticles)))
                ELSE AfterBlock(skip)
        \/ /\ Class2D = RL2D
           /\ \E outcome \in FunctionGreaterThanInt :
                directional' =
                  IF outcome = "TypeError" THEN [d EXCEPT !.pc = "TypeError"]
                  ELSE AfterBlock(Classified(d, "relion",
                                             finsetOfHundred(size)))
  /\ UNCHANGED <<coreVars, opticsVars, Class2D, noOfParticles, randomIteration,
                 classify, writer, reader>>

\* the values random.randint(1, finset) is drawn from, or the single 1
Selectable(totset) ==
  IF finsetOfHundred(totset) > 1 THEN 1..finsetOfHundred(totset) ELSE {1}

\* the end of a pass over the blocks: the stack of the iteration is written
AfterSelection(d) ==
  IF d.indx <= Len(d.fnDirectional) THEN d
  ELSE [d EXCEPT !.randomAverages = Append(@, d.mdRandom),
                 !.mdRandom = <<>>,
                 !.indx = 1,
                 !.i = @ + 1,
                 !.pc = IF d.i + 1 < randomIteration THEN "select" ELSE "done"]

\* one pass of the inner loop of randomSelectionStep
randomSelectionStep ==
  /\ directional.pc = "select"
  /\ LET d == directional
         totset == d.fnDirectional[d.indx].rows
     IN \E rc \in Selectable(totset) :
          directional' =
            AfterSelection(
              [d EXCEPT !.mdRandom =
                          Append(@, [ref |-> d.fnDirectional[d.indx].block,
                                     image |-> rc,
                                     among |-> Selectable(totset),
                                     totset |-> totset]),
                        !.indx = @ + 1])
  /\ UNCHANGED <<coreVars, opticsVars, Class2D, noOfParticles, randomIteration,
                 classify, writer, reader>>

InitDirectional ==
  /\ NoLandscape
  /\ ransac = [r \in Runs |-> NoRun]
  /\ cwd = NoCwd
  /\ NoOptics
  /\ NoClassify
  /\ NoWriter
  /\ NoReader
  /\ Class2D \in {CL2D, ML2D, RL2D}
  /\ noOfParticles \in 0..MaxNop
  /\ randomIteration \in 1..MaxRandomIteration
  /\ \E counts \in UNION {[1..k -> ParticleCounts] : k \in 1..MaxBlocks} :
       directional = [pc |-> "classify", fnNeighbours |-> counts, block |-> 1,
                      jobs |-> <<>>, fnDirectional |-> <<>>, i |-> 0,
                      indx |-> 1, mdRandom |-> <<>>, randomAverages |-> <<>>]

NextDirectional == classify2DStep \/ randomSelectionStep

SpecDirectional == InitDirectional /\ [][NextDirectional]_vars

\* the draws of the stacks written so far and of the stack being filled
Draws ==
  IF directional.pc \in {"select", "done"}
  THEN {directional.randomAverages[k][j] :
          k \in DOMAIN directional.randomAverages,
          j \in DOMAIN directional.fnDirectional}
       \cup {directional.mdRandom[j] : j \in DOMAIN directional.mdRandom}
  ELSE {}

\* C24: every stack written by randomSelectionStep has one row per direction
\* block, the selected index is an index of a class average of the block, and
\* every class average of the block is among the indices the draw is made from.
C24_AnyClassAverageSelectable ==
  /\ directional.pc \in {"select", "done"} =>
       \A k \in DOMAIN directional.randomAverages :
         /\ Len(directional.randomAverages[k]) = Len(directional.fnDirectional)
         /\ \A j \in DOMAIN directional.fnDirectional :
              directional.randomAverages[k][j].ref =
                directional.fnDirectional[j].block
  /\ \A draw \in Draws :
       /\ draw.image \in 1..draw.totset
       /\ draw.among = 1..draw.totset

\* C25: in every branch of classify2DStep the classification job is run on a
\* block only if the particle count of the block exceeds noOfParticles.
C25_JobsOnlyAboveMinimum ==
  directional.pc # "absent" =>
    \A j \in DOMAIN directional.jobs :
      directional.jobs[j].size > noOfParticles


(***************************************************************************)
(* ProtocolBase.runClassifyStep.  The classification program writes one    *)
(* model file per iteration; avePmax[k + 1] is rlnAveragePmax of iteration *)
(* k in thousandths.  A run moves it by the same amount at each of its     *)
(* iterations.                                                             *)
(***************************************************************************)
\* --iter of _setBasicArgs, line 843
InitialIter == 5

\* range(10, 55, 5) of runClassifyStep
LoopStart == 10

LoopStop == 55

LoopStep == 5

\* the threshold 0.005 of _stopRunCondition, in thousandths
SlopeLimit == 5

\* rlnAveragePmax is a probability: 0 .. 1000 thousandths
PmaxScale == 1000

\* the change of rlnAveragePmax per iteration within one run, in thousandths
Deltas == {-10, 0, 2, 10, 20}

\* rlnAveragePmax of iteration 0
StartPmax == {0, 500}

\* the iterations range(iter - 5, iter) would read
WindowWithoutLast(iter) == [k \in 1..5 |-> iter - 5 + (k - 1)]

\* the iterations range(iter - 5, iter + 1, 1) of _stopRunCondition reads
Window(iter) == [k \in 1..6 |-> iter - 5 + (k - 1)]

RECURSIVE SumOver(_, _)
SumOver(f, n) == IF n = 0 THEN 0 ELSE SumOver(f, n - 1) + f[n]

\* stats.linregress(x, y): the slope is (n Sxy - Sx Sy) / (n Sxx - Sx Sx);
\* the two parts of the fraction, the second positive
slopeNum(x, y) ==
  Len(x) * SumOver([k \in DOMAIN x |-> x[k] * y[k]], Len(x))
    - SumOver(x, Len(x)) * SumOver(y, Len(x))

slopeDen(x) ==
  Len(x) * SumOver([k \in DOMAIN x |-> x[k] * x[k]], Len(x))
    - SumOver(x, Len(x)) * SumOver(x, Len(x))

\* _stopRunCondition(rLev, iter) on the model files written so far
_stopRunCondition(pmax, iter) ==
  LET x == Window(iter)
      y == [k \in DOMAIN x |-> pmax[x[k] + 1]]
  IN slopeNum(x, y) <= SlopeLimit * slopeDen(x)

\* the model files after a run up to iteration iter that moves
\* rlnAveragePmax by delta per iteration
AfterRun(pmax, iter, delta) ==
  [k \in 1..(iter + 1) |->
     IF k <= Len(pmax) THEN pmax[k]
     ELSE pmax[Len(pmax)] + (k - Len(pmax)) * delta]

Probabilities(pmax) == \A k \in DOMAIN pmax : pmax[k] \in 0..PmaxScale

\* lines 696-699: the run with the initial arguments
runInitial ==
  /\ classify.pc = "init"
  /\ \E p \in StartPmax, delta \in Deltas :
       LET pmax == AfterRun(<<p>>, InitialIter, delta)
       IN /\ Probabilities(pmax)
          /\ classify' =
               [classify EXCEPT !.pc = "loop", !.i = LoopStart,
                  !.runs = <<[args |-> "normal", iter |-> InitialIter]>>,
                  !.avePmax = pmax]
  /\ UNCHANGED <<coreVars, opticsVars, directionalVars, writer, reader>>

\* one pass of the loop of lines 701-720
runContinue ==
  /\ classify.pc = "loop"
  /\ LET i == classify.i
         stop == _stopRunCondition(classify.avePmax, i - 5)
         check == [i |-> i, x |-> Window(i - 5),
                   latest |-> Len(classify.avePmax) - 1, stop |-> stop]
     IN IF stop
        THEN classify' = [classify EXCEPT !.pc = "done",
                                          !.checks = Append(@, check)]
        ELSE \E delta \in Deltas :
               LET pmax == AfterRun(classify.avePmax, i, delta)
               IN /\ Probabilities(pmax)
                  /\ classify' =
                       [classify EXCEPT
                          !.checks = Append(@, check),
                          !.copied = IF classify.changeMaps
                                     THEN Append(@, i - 5) ELSE @,
                          !.runs = Append(@, [args |-> "continue", iter |-> i]),
                          !.avePmax = pmax,
                          !.i = i + LoopStep,
                          !.pc = IF i + LoopStep < LoopStop
                                 THEN "loop" ELSE "done"]
  /\ UNCHANGED <<coreVars, opticsVars, directionalVars, writer, reader>>

InitClassify ==
  /\ NoLandscape
  /\ ransac = [r \in Runs |-> NoRun]
  /\ cwd = NoCwd
  /\ NoOptics
  /\ NoDirectional
  /\ NoWriter
  /\ NoReader
  /\ \E chgMaps \in BOOLEAN :
       classify = [pc |-> "init", i |-> 0, changeMaps |-> chgMaps,
                   runs |-> <<>>, checks |-> <<>>, copied |-> <<>>,
                   avePmax |-> <<>>]

NextClassify == runInitial \/ runContinue

SpecClassify == InitClassify /\ [][NextClassify]_vars

\* C27: the first run has the initial arguments; the continuation runs are at
\* most 9, with --iter 10, 15, ..., 50 in this order; each continuation with
\* --iter i follows an evaluation of the stop condition on the six iterations
\* i-10 .. i-5, the last of them the latest iteration written, that was
\* false; an evaluation that was true is the last one and no run follows it.
C27_ContinuationsUntilStop ==
  classify.pc \in {"loop", "done"} =>
    LET runs == classify.runs
        checks == classify.checks
    IN /\ Len(runs) \in 1..10
       /\ runs[1] = [args |-> "normal", iter |-> 5]
       /\ Len(checks) \in {Len(runs) - 1, Len(runs)}
       /\ \A k \in 2..Len(runs) :
            /\ runs[k] = [args |-> "continue", iter |-> 5 * k]
            /\ ~checks[k - 1].stop
       /\ \A c \in DOMAIN checks :
            /\ checks[c].x = <<5 * c - 5, 5 * c - 4, 5 * c - 3,
                               5 * c - 2, 5 * c - 1, 5 * c>>
            /\ checks[c].latest = 5 * c
            /\ checks[c].i = 5 * c + 5
            /\ checks[c].stop =>
                 /\ c = Len(checks)
                 /\ Len(runs) = c
                 /\ classify.pc = "done"

\* the step has stopped on the condition after two continuation runs or more
C27_Witness ==
  /\ classify.pc = "done"
  /\ Len(classify.runs) >= 3
  /\ classify.checks[Len(classify.checks)].stop


(***************************************************************************)
(* convert31.Writer: _setAttributes and its callers _micToRow and          *)
(* _partToRow.  An object is the function of its attribute names, a row    *)
(* the function of its labels.                                             *)
(***************************************************************************)
MaxLabels == 2

\* the labels _partToRow passes for the coordinate, lines 386-388
CoordLabels == <<"rlnClassNumber", "rlnAutopickFigureOfMerit", "rlnAnglePsi">>

\* the labels Writer.writeSetOfParticles appends to extraLabels, lines 340-341
PartLabels == <<"rlnParticleSelectZScore", "rlnMovieFrameNumber">>

\* labels a caller passes as extraLabels
CallerLabels == {"rlnGroupNumber", "rlnParticleSelectZScore"}

AttributeValues == {1, 2}

\* the objects whose attributes are among the given names
ObjectsWith(names) == UNION {[S -> AttributeValues] : S \in SUBSET names}

\* the attribute that holds the value of a label
AttrOf(label) == "_" \o label

\* str() of a list of strings: ['a', 'b']
RECURSIVE ListItems(_)
ListItems(items) ==
  IF Len(items) = 1 THEN "'" \o items[1] \o "'"
  ELSE ListItems(SubSeq(items, 1, Len(items) - 1)) \o ", '"
         \o items[Len(items)] \o "'"

ListStr(items) == IF items = <<>> THEN "[]" ELSE "[" \o ListItems(items) \o "]"

\* '_%s' % attributes: a list is formatted as one value, a tuple supplies the
\* values and must have exactly one
FormatAttributes(attributes) ==
  IF attributes.kind = "list" THEN "_" \o ListStr(attributes.items)
  ELSE IF Len(attributes.items) = 1 THEN "_" \o attributes.items[1]
  ELSE "TypeError"

\* row[k] = v
SetLabel(row, k, v) ==
  [x \in DOMAIN row \cup {k} |-> IF x = k THEN v ELSE row[x]]

\* the first n passes of the loop of _setAttributes
RECURSIVE setFirst(_, _, _, _)
setFirst(obj, row, attributes, n) ==
  IF n = 0 THEN row
  ELSE LET sofar == setFirst(obj, row, attributes, n - 1)
           attr == attributes.items[n]
           attrLabel == FormatAttributes(attributes)
       IN IF attrLabel \in DOMAIN obj
          THEN SetLabel(sofar, attr, obj[attrLabel])
          ELSE sofar

\* the formatting fails in the first pass of the loop
Unformattable(attributes) ==
  /\ attributes.kind = "tuple"
  /\ Len(attributes.items) > 1

\* _setAttributes(obj, row, attributes), when the formatting does not fail
_setAttributes(obj, row, attributes) ==
  setFirst(obj, row, attributes, Len(attributes.items))

\* obj.getAttributeValue(name, default)
getAttributeValue(obj, name, default) ==
  IF name \in DOMAIN obj THEN obj[name] ELSE default

\* _micToRow(mic, row)
_micToRow ==
  /\ writer.pc = "_micToRow"
  /\ writer' =
       IF Unformattable(writer._extraLabels)
       THEN [writer EXCEPT !.pc = "TypeError"]
       ELSE [writer EXCEPT
               !.pc = "done",
               !.row = SetLabel(
                         _setAttributes(writer.obj, writer.row,
                                        writer._extraLabels),
                         "rlnOpticsGroup",
                         getAttributeValue(writer.obj, "_rlnOpticsGroup", 1))]
  /\ UNCHANGED <<coreVars, opticsVars, directionalVars, classify, reader>>

\* _partToRow(part, row): the coordinate labels, then the extra labels
_partToRow ==
  /\ writer.pc = "_partToRow"
  /\ LET withId == SetLabel(writer.row, "rlnImageId", 1)
         withCoord ==
           IF writer.hasCoord
           THEN _setAttributes(writer.coord, withId,
                               [kind |-> "list", items |-> CoordLabels])
           ELSE withId
     IN writer' =
          [writer EXCEPT
             !.pc = "done",
             !.row = SetLabel(
                       _setAttributes(writer.obj, withCoord,
                                      writer._extraLabels),
                       "rlnOpticsGroup",
                       getAttributeValue(writer.obj, "_rlnOpticsGroup", 1))]
  /\ UNCHANGED <<coreVars, opticsVars, directionalVars, classify, reader>>

\* sequences of at most MaxLabels labels
LabelLists(labels) == UNION {[1..k -> labels] : k \in 0..MaxLabels}

Range(f) == {f[x] : x \in DOMAIN f}

\* a micrograph writer, or a particle writer (whose extraLabels is a list, to
\* which the constructor appends PartLabels)
InitWriter ==
  /\ NoLandscape
  /\ ransac = [r \in Runs |-> NoRun]
  /\ cwd = NoCwd
  /\ NoOptics
  /\ NoDirectional
  /\ NoClassify
  /\ NoReader
  /\ \/ \E obj \in ObjectsWith({AttrOf(l) : l \in CallerLabels}
                                 \cup {"_rlnOpticsGroup"}),
          kind \in {"list", "tuple"}, items \in LabelLists(CallerLabels) :
          writer = [pc |-> "_micToRow", obj |-> obj, hasCoord |-> FALSE,
                    coord |-> <<>>,
                    _extraLabels |-> [kind |-> kind, items |-> items],
                    row |-> <<>>]
     \/ \E obj \in ObjectsWith({AttrOf(l) : l \in Range(PartLabels)}),
          hasCoord \in BOOLEAN,
          coord \in ObjectsWith({AttrOf(l) : l \in Range(CoordLabels)}) :
          /\ ~hasCoord => coord = <<>>
          /\ writer = [pc |-> "_partToRow", obj |-> obj,
                       hasCoord |-> hasCoord, coord |-> coord,
                       _extraLabels |-> [kind |-> "list", items |-> PartLabels],
                       row |-> <<>>]

NextWriter == _micToRow \/ _partToRow

SpecWriter == InitWriter /\ [][NextWriter]_vars

\* C28: after _micToRow or _partToRow, every extra label (and every coordinate
\* label of a particle with a coordinate) for which the object has the
\* attribute '_' + label is in the row, with the value of that attribute.
C28_PresentLabelsWritten ==
  writer.pc = "done" =>
    /\ \A l \in Range(writer._extraLabels.items) :
         AttrOf(l) \in DOMAIN writer.obj =>
           /\ l \in DOMAIN writer.row
           /\ writer.row[l] = writer.obj[AttrOf(l)]
    /\ writer.hasCoord =>
         \A l \in Range(CoordLabels) :
           AttrOf(l) \in DOMAIN writer.coord =>
             /\ l \in DOMAIN writer.row
             /\ writer.row[l] = writer.coord[AttrOf(l)]


(***************************************************************************)
(* convert31.Reader: readSetOfParticles and the transform handler.         *)
(* reader.setParticleTransform is what the attribute of that name of the   *)
(* instance is bound to: the method of the class until a row is handled,   *)
(* then one of the three handlers.                                         *)
(***************************************************************************)
MaxCalls == 2

MaxRows == 2

ALIGN_NONE == "None"

ALIGN_2D == "2D"

ALIGN_3D == "3D"

ALIGN_PROJ == "Projection"

AlignTypes == {ALIGN_NONE, ALIGN_2D, ALIGN_3D, ALIGN_PROJ}

\* the body of Reader.setParticleTransform: the handler the attribute is
\* rebound to, or "raise"
Rebind(alignType, hasAnyColumn) ==
  IF alignType = ALIGN_NONE \/ ~hasAnyColumn
  THEN "__setParticleTransformNone"
  ELSE IF alignType = ALIGN_2D THEN "__setParticleTransform2D"
  ELSE IF alignType = ALIGN_PROJ THEN "__setParticleTransformProj"
  ELSE "raise"

\* the handlers that write into particle.getTransform()
NeedsTransform == {"__setParticleTransform2D", "__setParticleTransformProj"}

\* readSetOfParticles(starFile, partSet, alignType=...) on a star file of
\* rows particles, with or without alignment columns: _rowToPart of the first
\* row and of every other row.  The particle of the call is new and has no
\* Transform unless the method of the class gives it one.
readSetOfParticles ==
  /\ reader.pc = "ready"
  /\ Len(reader.calls) < MaxCalls
  /\ \E alignType \in AlignTypes, hasAnyColumn \in BOOLEAN, rows \in 1..MaxRows :
       LET bound == reader.setParticleTransform
           call == [alignType |-> alignType, hasAnyColumn |-> hasAnyColumn,
                    rows |-> rows]
           rebound == Rebind(alignType, hasAnyColumn)
           finish(handlers, outcome) ==
             Append(reader.calls,
                    [call |-> call, handlers |-> handlers, outcome |-> outcome])
       IN reader' =
            IF bound = "setParticleTransform"
            THEN IF rebound = "raise"
                 THEN [reader EXCEPT !._alignType = alignType,
                                     !.calls = finish(<<>>, "Exception")]
                 ELSE [reader EXCEPT
                         !._alignType = alignType,
                         !.setParticleTransform = rebound,
                         !.calls = finish([k \in 1..rows |-> rebound], "ok")]
            ELSE IF bound \in NeedsTransform
                 THEN [reader EXCEPT
                         !._alignType = alignType,
                         !.calls = finish(<<bound>>, "AttributeError")]
                 ELSE [reader EXCEPT
                         !._alignType = alignType,
                         !.calls = finish([k \in 1..rows |-> bound], "ok")]
  /\ UNCHANGED <<coreVars, opticsVars, directionalVars, classify, writer>>

\* Reader(**kwargs)
InitReader ==
  /\ NoLandscape
  /\ ransac = [r \in Runs |-> NoRun]
  /\ cwd = NoCwd
  /\ NoOptics
  /\ NoDirectional
  /\ NoClassify
  /\ NoWriter
  /\ reader = [pc |-> "ready", setParticleTransform |-> "setParticleTransform",
               _alignType |-> ALIGN_NONE, calls |-> <<>>]

NextReader == readSetOfParticles

SpecReader == InitReader /\ [][NextReader]_vars

\* C29: in every call of readSetOfParticles on a Reader, the handler applied
\* to each row is the one that the alignType of that call and the presence of
\* alignment columns in its star file determine.
C29_HandlerOfCurrentCall ==
  reader.pc = "ready" =>
    \A c \in DOMAIN reader.calls :
      \A k \in DOMAIN reader.calls[c].handlers :
        reader.calls[c].handlers[k] =
          Rebind(reader.calls[c].call.alignType,
                 reader.calls[c].call.hasAnyColumn)

====
